---- MODULE Spec2Model ----
(***************************************************************************)
(* A model of the LLM-Text-RPG combat loop: the Bar, Level, Stats, Monster *)
(* and Player classes and the startGame loop.                              *)
(*                                                                         *)
(* Representation notes                                                    *)
(*  - JavaScript numbers are modelled by integers.  The only fractional    *)
(*    quantities of the program (monster defense = CON / 2, the player's   *)
(*    weapon term die / 2, criticalChance = base + bonus * 0.5) are kept   *)
(*    doubled ("X2") and floored exactly where the code floors them.       *)
(*  - Strings whose characters the code inspects (action_type, the dice    *)
(*    notation of a weapon) are sequences of one-character strings.        *)
(*  - Math.random() < p / 100 is a draw d = 100 * random in [0, 100)       *)
(*    compared with the chance; d ranges over the sample set Draws.        *)
(***************************************************************************)
EXTENDS Integers, Sequences, FiniteSets, TLC

VARIABLES
    bar,        \* Bar driver: the Bar object [max, position]
    barLive,    \* Bar driver: TRUE once a constructor call has succeeded
    barLog,     \* Bar driver: the last call [op, arg, init, threw, before]
    lvl,        \* Level driver: the Level object [value, exp, expToNextLevel]
    lvlLog,     \* Level driver: the last gainExp call [called, amount, ret, before]
    statsObj,   \* Stats driver: the Stats object, its _values
    statsLog,   \* Stats driver: the last call [op, key, value, arg, threw, ret, before]
    gen,        \* createLLMMonster driver: the last call [called, level, http, threw, monster]
    cfg,        \* config.js: GAME_CONSTANTS and the player's defaults
    pc,         \* startGame: where the loop stands
    player,     \* startGame: the Player object
    monster,    \* startGame: the Monster of the current encounter
    combatCount, \* startGame: combatCount
    acted,      \* who attacked or acted last in the current encounter
    lastAttack, \* the record of the last attack resolved
    lastAction, \* the record of the last Monster.chooseAction call
    lastReward, \* the record of the last reward phase
    callLog     \* object drivers: the last call on the Player or the Monster

vars == <<bar, barLive, barLog, lvl, lvlLog, statsObj, statsLog, gen, cfg, pc, player, monster,
          combatCount, acted, lastAttack, lastAction, lastReward, callLog>>

\* ------------------------------------------------------------------ bounds
MaxBar == 4          \* Bar driver: arguments range over -2 .. MaxBar + 2
MaxLevel == 3        \* Level driver: gainExp is called on levels 1 .. MaxLevel + 2
MaxGenLevel == 9     \* createLLMMonster driver: player levels 1 .. MaxGenLevel
MaxCombats == 2      \* startGame: encounters played
MaxStat == 19        \* Stats driver: the largest stat value tried
MaxInventory == 2    \* Player weapon driver: items are taken while fewer are in the inventory

\* 100 * Math.random(), sampled
Draws == {0, 99}

\* ----------------------------------------------------------------- helpers
Min(a, b) == IF a < b THEN a ELSE b
Max(a, b) == IF a > b THEN a ELSE b

\* ------------------------------------------------------------------- Bar
\* the constructor's guard letting a max of 0 through
BarCtorThrows_NegativeOnly(max) == max < 0

\* constructor(max, initialPosition = max): the guard of line 13
BarCtorThrows(max) == max <= 0

\* constructor body, lines 16-17
BarNew(max, initialPosition) ==
    [max |-> max, position |-> Min(Max(0, initialPosition), max)]

\* set value with the upper clamp forgotten
BarSetValue_NoUpperClamp(b, newPosition) ==
    [b EXCEPT !.position = Max(0, newPosition)]

\* set value(newPosition), line 33
BarSetValue(b, newPosition) ==
    [b EXCEPT !.position = Min(Max(0, newPosition), b.max)]

\* set max(newMax): the guard of line 49
BarSetMaxThrows(newMax) == newMax <= 0

\* set max with the clamp of lines 54-56 forgotten
BarSetMax_NoClamp(b, newMax) ==
    IF BarSetMaxThrows(newMax) THEN b ELSE [b EXCEPT !.max = newMax]

\* set max(newMax), lines 48-57 (a throwing call leaves the object as it was)
BarSetMax(b, newMax) ==
    IF BarSetMaxThrows(newMax) THEN b
    ELSE [max |-> newMax,
          position |-> IF b.position > newMax THEN newMax ELSE b.position]

BarIsEmpty(b) == b.position <= 0

\* ------------------------------------------------------------------ Level
BASE_EXP_TO_NEXT_LEVEL == 100
\* EXP_MULTIPLIER_PER_LEVEL = 1.5 = EXP_MULTIPLIER_NUM / EXP_MULTIPLIER_DEN
EXP_MULTIPLIER_NUM == 3
EXP_MULTIPLIER_DEN == 2

\* calculateExpToNextLevel(): Math.floor(BASE * (value * MULTIPLIER))
CalculateExpToNextLevel(value) ==
    (BASE_EXP_TO_NEXT_LEVEL * value * EXP_MULTIPLIER_NUM) \div EXP_MULTIPLIER_DEN

\* constructor(initialLevel = 1, initialExp = 0)
LevelNew(initialLevel, initialExp) ==
    [value |-> initialLevel, exp |-> initialExp,
     expToNextLevel |-> CalculateExpToNextLevel(initialLevel)]

\* levelUp() with the surplus dropped in place of carried over
LevelUp_NoCarry(l) ==
    [value |-> l.value + 1, exp |-> 0,
     expToNextLevel |-> CalculateExpToNextLevel(l.value + 1)]

\* levelUp() with the threshold left as it was
LevelUp_StaleThreshold(l) ==
    [value |-> l.value + 1,
     exp |-> l.exp - l.expToNextLevel,
     expToNextLevel |-> l.expToNextLevel]

\* levelUp()
LevelUp(l) ==
    [value |-> l.value + 1,
     exp |-> l.exp - l.expToNextLevel,
     expToNextLevel |-> CalculateExpToNextLevel(l.value + 1)]

\* the level-up loop with an if in place of the while
LevelUpLoop_Once(l) ==
    IF l.exp >= l.expToNextLevel THEN LevelUp(l) ELSE l

\* the level-up loop with > in place of >=
RECURSIVE LevelUpLoop_Strict(_)
LevelUpLoop_Strict(l) ==
    IF l.exp > l.expToNextLevel THEN LevelUpLoop_Strict(LevelUp(l)) ELSE l

\* the while loop of checkAndProcessLevelUp(): the Level it leaves
RECURSIVE LevelUpLoop(_)
LevelUpLoop(l) ==
    IF l.exp >= l.expToNextLevel THEN LevelUpLoop(LevelUp(l)) ELSE l

\* checkAndProcessLevelUp(): leveledUp is set iff the loop body ran
CheckAndProcessLevelUp(l) ==
    [level |-> LevelUpLoop(l), leveledUp |-> l.exp >= l.expToNextLevel]

\* gainExp(amount) reporting the level-up only when exp remains
LevelGainExp_FlagOnSurplus(l, amount) ==
    LET r == CheckAndProcessLevelUp([l EXCEPT !.exp = l.exp + amount])
    IN [r EXCEPT !.leveledUp = r.leveledUp /\ r.level.exp > 0]

\* gainExp(amount)
LevelGainExp(l, amount) ==
    CheckAndProcessLevelUp([l EXCEPT !.exp = l.exp + amount])

\* ---------------------------------------------------------------- strings
\* "attack" as a string of characters
Str_attack == <<"a", "t", "t", "a", "c", "k">>
Str_defend == <<"d", "e", "f", "e", "n", "d">>
Str_defense == <<"d", "e", "f", "e", "n", "s", "e">>

UpperChars == <<"A", "B", "C", "D", "E", "F", "G", "H", "I", "J", "K", "L", "M",
                "N", "O", "P", "Q", "R", "S", "T", "U", "V", "W", "X", "Y", "Z">>
DigitChars == <<"0", "1", "2", "3", "4", "5", "6", "7", "8", "9">>

ToLowerChar(c) ==
    IF \E i \in 1 .. Len(UpperChars) : UpperChars[i] = c
    THEN <<"a", "b", "c", "d", "e", "f", "g", "h", "i", "j", "k", "l", "m", "n", "o", "p", "q", "r", "s", "t", "u", "v", "w", "x", "y", "z">>[CHOOSE i \in 1 .. Len(UpperChars) : UpperChars[i] = c]
    ELSE c

\* String.prototype.toLowerCase
ToLowerCase(s) == [i \in 1 .. Len(s) |-> ToLowerChar(s[i])]

\* String.prototype.includes
Includes(s, sub) ==
    \E i \in 0 .. (Len(s) - Len(sub)) : SubSeq(s, i + 1, i + Len(sub)) = sub

IsDigit(c) == \E i \in 1 .. Len(DigitChars) : DigitChars[i] = c

\* the value of the leading digits of s (s starts with a digit)
RECURSIVE DigitsValue(_, _)
DigitsValue(s, acc) ==
    IF s = <<>> \/ ~IsDigit(Head(s)) THEN acc
    ELSE DigitsValue(Tail(s), 10 * acc + (CHOOSE i \in 1 .. Len(DigitChars) : DigitChars[i] = Head(s)) - 1)


\* parseInt(x): NaN for undefined and for a string that does not start with a
\* digit (the dice strings carry no sign and no leading blank)
ParseInt(x) ==
    IF ~x.defined \/ x.s = <<>> \/ ~IsDigit(Head(x.s))
    THEN [nan |-> TRUE, n |-> 0]
    ELSE [nan |-> FALSE, n |-> DigitsValue(x.s, 0)]

\* s.split('d')[1]: the piece between the first 'd' and the next one (or the
\* end); undefined when s holds no 'd'
SplitD1(s) ==
    LET ds == { i \in 1 .. Len(s) : s[i] = "d" } IN
    IF ds = {} THEN [defined |-> FALSE, s |-> <<>>]
    ELSE LET first == CHOOSE i \in ds : \A j \in ds : i <= j
             rest == { j \in ds : j > first }
             stop == IF rest = {} THEN Len(s) + 1
                     ELSE CHOOSE i \in rest : \A j \in rest : i <= j
         IN [defined |-> TRUE, s |-> SubSeq(s, first + 1, stop - 1)]

\* parseInt(damage.split('d')[1])
DamageDie(damage) == ParseInt(SplitD1(damage))

\* a >= b in place of a > b
NumGreater_OrEqual(a, b) == ~a.nan /\ ~b.nan /\ a.n >= b.n

\* a > b on numbers either of which may be NaN
NumGreater(a, b) == ~a.nan /\ ~b.nan /\ a.n > b.n

\* ---------------------------------------------------- generator responses
\* A response text is [fence, json, v]: the text is v's JSON rendering (json)
\* or some other text, wrapped as its fence says:
\*   "none"                       the text alone
\*   "json", "plain"              a json-tagged and an untagged code fence
\*   "json_open", "plain_open"    an opening fence that is never closed
Fences == {"none", "json", "plain", "json_open", "plain_open"}

PlainText(fence, what) == [fence |-> fence, json |-> FALSE, v |-> [msg |-> what]]
JsonText(fence, v) == [fence |-> fence, json |-> TRUE, v |-> v]

\* the outcomes of axios.post: it throws, it answers without a response
\* field, or it answers with a text
HttpError == [kind |-> "error", text |-> PlainText("none", "")]
HttpEmpty == [kind |-> "empty", text |-> PlainText("none", "")]
HttpOk(text) == [kind |-> "ok", text |-> text]

\* getGemmaResponse(prompt, model): never throws
GetGemmaResponse(http) ==
    CASE http.kind = "error" ->
           PlainText("none", "Failed to call Ollama API. Make sure the Ollama server is running.")
      [] http.kind = "empty" ->
           PlainText("none", "Did not receive a valid response from Ollama.")
      [] OTHER -> http.text

\* trim() and the removal of the code fence.  With no closing fence
\* lastIndexOf of the fence is 0, so substring(7, 0) is the opening fence itself.
StripFence(text) ==
    CASE text.fence \in {"none", "json", "plain"} -> [json |-> text.json, v |-> text.v]
      [] text.fence = "json_open" -> [json |-> FALSE, v |-> [msg |-> "<fence>json"]]
      [] OTHER -> [json |-> FALSE, v |-> [msg |-> "<fence>"]]

\* JSON.parse(jsonString): throws unless the string is JSON
JsonParse(str) == [threw |-> ~str.json, v |-> str.v]

\* ------------------------------------------------------------------ Stats
\* Object.values(StatType)
StatTypes == {"STR", "DEX", "CON", "INT", "WIS", "CHA"}

\* calculateStatBonus rounding toward zero in place of down
CalculateStatBonus_Truncate(statValue) ==
    IF statValue >= 10 THEN (statValue - 10) \div 2
    ELSE 0 - ((10 - statValue) \div 2)

\* calculateStatBonus(statValue): Math.floor((statValue - 10) / 2)
CalculateStatBonus(statValue) == (statValue - 10) \div 2

\* new Stats(values): values maps some of the stat names to numbers
StatsNew(values) ==
    [t \in StatTypes |-> IF t \in DOMAIN values THEN values[t] ELSE 10]

\* Stats.get(statType), where it does not throw
StatsGet(st, statType) == IF statType \in StatTypes THEN st[statType] ELSE 10

\* Stats.getBonus(statType)
StatsGetBonus(st, statType) ==
    IF statType \notin StatTypes /\ statType # "LUCK" THEN 0
    ELSE CalculateStatBonus(StatsGet(st, statType))

\* ----------------------------------------------------------------- config
\* GAME_CONSTANTS.CRITICAL_MULTIPLIER = CRITICAL_MULTIPLIER_NUM / CRITICAL_MULTIPLIER_DEN
CRITICAL_MULTIPLIER_NUM == 3
CRITICAL_MULTIPLIER_DEN == 2
DEFAULT_PLAYER_BASE_HP == 10

\* DEFAULT_PLAYER_STATS, two choices of it
PlainStats == [t \in StatTypes |-> 10]

\* GAME_CONSTANTS.BASE_HIT_CHANCE, BASE_EVASION_RATE, BASE_CRITICAL_CHANCE
\* (percent) with DEFAULT_PLAYER_STATS: an ordinary setting, one with the hit
\* forced and evasion off, one with neither side able to hit, and one with
\* every draw decided in advance
Config(hit, evade, crit, stats) ==
    [BASE_HIT_CHANCE |-> hit, BASE_EVASION_RATE |-> evade,
     BASE_CRITICAL_CHANCE |-> crit, DEFAULT_PLAYER_STATS |-> stats]

Configs ==
    { Config(80, 10, 5, [t \in StatTypes |-> CASE t = "STR" -> 14 [] t = "DEX" -> 12 [] t = "CON" -> 8 [] OTHER -> 10]),
      Config(100, 0, 5, PlainStats),
      Config(0, 0, 0, PlainStats),
      Config(100, 0, 0, PlainStats) }

\* odds with <= in place of <
Odds_Inclusive(num, den, draw) == draw * den <= num

\* odds(probability) with probability = (num / den) / 100 and
\* draw = 100 * Math.random(): Math.random() < probability
Odds(num, den, draw) == draw * den < num

\* ---------------------------------------------------------------- Monster
\* the JSON value a monster generator answers with
MonsterJson(isNull, hasName, name, hasStats, stats, hasHp, hp, base_exp, drop_chance, abilities) ==
    [isNull |-> isNull, hasName |-> hasName, name |-> name,
     hasStats |-> hasStats, stats |-> stats, hasHp |-> hasHp, hp |-> hp,
     base_exp |-> base_exp, drop_chance |-> drop_chance,
     special_abilities |-> abilities]

\* the guard of the constructor (line 112) and the one of new Bar (line 126)
MonsterCtorThrows(monsterData) ==
    \/ monsterData.isNull
    \/ ~monsterData.hasName \/ monsterData.name = ""
    \/ ~monsterData.hasStats
    \/ ~monsterData.hasHp \/ monsterData.hp = 0
    \/ BarCtorThrows(monsterData.hp)

\* new Monster(monsterData); base_exp and drop_chance 0 stand for absent too
\* (x || default); special_abilities is "absent", "list" or "string"
MonsterNew(monsterData) ==
    [name |-> monsterData.name,
     baseExp |-> IF monsterData.base_exp # 0 THEN monsterData.base_exp ELSE 10,
     dropChance |-> IF monsterData.drop_chance # 0 THEN monsterData.drop_chance ELSE 50,
     specialAbilities |-> IF monsterData.special_abilities = "absent" THEN "list"
                          ELSE monsterData.special_abilities,
     stats |-> StatsNew(monsterData.stats),
     hpBar |-> BarNew(monsterData.hp, monsterData.hp)]

\* get attackPower() taken from the STR bonus in place of the STR score
MonsterAttackPower_FromBonus(m) ==
    Max(1, IF StatsGetBonus(m.stats, "STR") # 0 THEN StatsGetBonus(m.stats, "STR") ELSE 5)

\* get attackPower(): Math.max(1, stats.get(STR) || 5)
MonsterAttackPower(m) ==
    Max(1, IF StatsGet(m.stats, "STR") # 0 THEN StatsGet(m.stats, "STR") ELSE 5)

\* get defense(), doubled: Math.max(0, (stats.get(CON) || 1) / 2)
MonsterDefenseX2(m) ==
    Max(0, IF StatsGet(m.stats, "CON") # 0 THEN StatsGet(m.stats, "CON") ELSE 1)

MonsterHitChance(m) == cfg.BASE_HIT_CHANCE
MonsterEvasionRate(m) == cfg.BASE_EVASION_RATE
MonsterCriticalChance(m) == cfg.BASE_CRITICAL_CHANCE

\* takeDamage(amount): hpBar.value -= amount; returns isEmpty()
MonsterTakeDamage(m, amount) ==
    [m EXCEPT !.hpBar = BarSetValue(m.hpBar, m.hpBar.position - amount)]

\* takeDamage(amount): the value returned, hpBar.isEmpty() after the subtraction
MonsterTakeDamageReturns(m, amount) == BarIsEmpty(MonsterTakeDamage(m, amount).hpBar)

\* the value an action generator answers with; action_type is "absent", a
\* "string" (action_type holds its characters) or a "number"
ActionJson(isNull, kind, action_type) ==
    [isNull |-> isNull, kind |-> kind, action_type |-> action_type]

\* chooseAction: the prompt is built before the try block, and
\* this.specialAbilities.join(', ') needs an array
ChooseActionPromptThrows(m) == m.specialAbilities # "list"

\* chooseAction: what the try block throws on (JSON.parse, actionData.description
\* of null, action_type.toLowerCase() of undefined or of a number)
ChooseActionTryThrows(parsed) ==
    parsed.threw \/ parsed.v.isNull \/ parsed.v.kind # "string"

\* chooseAction(player): [threw, type]
ChooseAction(m, http) ==
    IF ChooseActionPromptThrows(m) THEN [threw |-> TRUE, type |-> "none"]
    ELSE LET parsed == JsonParse(StripFence(GetGemmaResponse(http))) IN
         IF ChooseActionTryThrows(parsed) THEN [threw |-> FALSE, type |-> "attack"]
         ELSE LET low == ToLowerCase(parsed.v.action_type) IN
              IF low = Str_attack THEN [threw |-> FALSE, type |-> "attack"]
              ELSE IF low = Str_defend \/ Includes(low, Str_defense)
                   THEN [threw |-> FALSE, type |-> "defend"]
                   ELSE [threw |-> FALSE, type |-> "attack"]

\* createLLMMonster: maxHp of the difficulty tier
TierMaxHp(playerLevel) ==
    IF playerLevel <= 3 THEN 25 ELSE IF playerLevel <= 7 THEN 50 ELSE 100

\* createLLMMonster: baseExp of the difficulty tier
TierBaseExp(playerLevel) ==
    IF playerLevel <= 3 THEN 10 + (playerLevel - 1) * 5
    ELSE IF playerLevel <= 7 THEN 20 + (playerLevel - 3) * 10
    ELSE 50 + (playerLevel - 7) * 15

\* the fallback with the tier's cap forgotten and the level not scaled in
FallbackMonsterData_Unscaled(playerLevel) ==
    MonsterJson(FALSE, TRUE, "Error Monster", TRUE,
                [t \in StatTypes |-> 5], TRUE, 15, TierBaseExp(playerLevel), 30, "list")

\* the fallback data of the catch block, lines 286-294 (drop_chance 0.3)
FallbackMonsterData(playerLevel) ==
    MonsterJson(FALSE, TRUE, "Error Monster", TRUE,
                [t \in StatTypes |-> IF t \in {"STR", "DEX", "CON"}
                                     THEN 5 + (playerLevel \div 2) ELSE 5],
                TRUE, Min(TierMaxHp(playerLevel), 15 + playerLevel * 2),
                TierBaseExp(playerLevel), 30, "list")

\* createLLMMonster: what the try block throws on (JSON.parse, monsterData.name
\* of null, new Monster)
CreateTryThrows(parsed) == parsed.threw \/ MonsterCtorThrows(parsed.v)

\* createLLMMonster(playerLevel, hint): [threw, monster]
CreateLLMMonster(playerLevel, http) ==
    LET parsed == JsonParse(StripFence(GetGemmaResponse(http))) IN
    IF ~CreateTryThrows(parsed)
    THEN [threw |-> FALSE, monster |-> MonsterNew(parsed.v)]
    ELSE [threw |-> MonsterCtorThrows(FallbackMonsterData(playerLevel)),
          monster |-> MonsterNew(FallbackMonsterData(playerLevel))]

\* ----------------------------------------------------------------- Player
\* the JSON value an item generator answers with; damage is "absent", a
\* "string" (damage holds its characters) or a "number"
ItemJson(isNull, hasName, name, hasType, type, dmgKind, damage) ==
    [id |-> 0, isNull |-> isNull, hasName |-> hasName, name |-> name,
     hasType |-> hasType, type |-> type, dmgKind |-> dmgKind, damage |-> damage]

\* the object JSON.parse builds: objects are told apart by identity, which is
\* modelled by the number of the encounter that made them (0: the default weapon)
ItemObject(v, id) == [v EXCEPT !.id = id]

\* the default weapon of the constructor, lines 143-148
WornDagger ==
    ItemJson(FALSE, TRUE, "Worn Dagger", TRUE, "Weapon", "string", <<"1", "d", "4">>)

\* get maxHp()
PlayerMaxHpOf(level, stats) ==
    DEFAULT_PLAYER_BASE_HP + (level.value * 5) + (StatsGetBonus(stats, "CON") * 2)

\* get maxMp()
PlayerMaxMpOf(level, stats) ==
    10 + (level.value * 2) + (StatsGetBonus(stats, "INT") * 1)

\* new Player({ name: "Arwen" })
PlayerNew(defaultStats) ==
    LET level == LevelNew(1, 0)
        stats == StatsNew(defaultStats)
    IN [level |-> level,
        stats |-> stats,
        gold |-> 0,
        hpBar |-> BarNew(PlayerMaxHpOf(level, stats), PlayerMaxHpOf(level, stats)),
        mpBar |-> BarNew(PlayerMaxMpOf(level, stats), PlayerMaxMpOf(level, stats)),
        inventory |-> <<>>,
        equippedWeapon |-> WornDagger]

\* get attackPower() with the + 1 added whether or not the weapon has a damage
PlayerAttackPower_AlwaysPlusOne(p) ==
    LET baseAttack == 5 + StatsGetBonus(p.stats, "STR")
        w == p.equippedWeapon
    IN IF w.dmgKind = "string" /\ w.damage # <<>>
       THEN Max(2, 2 * baseAttack + DamageDie(w.damage).n + 2) \div 2
       ELSE Max(1, baseAttack + 1)

\* get attackPower(): Math.floor(Math.max(1, 5 + bonus(STR) + die / 2 + 1)); the
\* weapon term is added when equippedWeapon.damage is a non-empty string
PlayerAttackPower(p) ==
    LET baseAttack == 5 + StatsGetBonus(p.stats, "STR")
        w == p.equippedWeapon
    IN IF w.dmgKind = "string" /\ w.damage # <<>>
       THEN Max(2, 2 * baseAttack + DamageDie(w.damage).n + 2) \div 2
       ELSE Max(1, baseAttack)

\* get defense()
PlayerDefense(p) == 2 + StatsGetBonus(p.stats, "DEX")

\* get hitChance()
PlayerHitChance(p) == cfg.BASE_HIT_CHANCE + (StatsGetBonus(p.stats, "DEX") * 2)

\* get evasionRate()
PlayerEvasionRate(p) == cfg.BASE_EVASION_RATE + (StatsGetBonus(p.stats, "DEX") * 1)

\* get criticalChance(), doubled: StatType.LUCK is undefined, so the bonus is
\* the one of DEX
PlayerCriticalChanceX2(p) == 2 * cfg.BASE_CRITICAL_CHANCE + StatsGetBonus(p.stats, "DEX")

\* takeDamage(amount)
PlayerTakeDamage(p, amount) ==
    [p EXCEPT !.hpBar = BarSetValue(p.hpBar, p.hpBar.position - amount)]

\* levelUp() raising the maximum of both bars without filling them
PlayerLevelUp_MaxOnly(p) ==
    [p EXCEPT !.hpBar = BarSetMax(p.hpBar, PlayerMaxHpOf(p.level, p.stats)),
              !.mpBar = BarSetMax(p.mpBar, PlayerMaxMpOf(p.level, p.stats))]

\* levelUp(): both bars get their new maximum and are filled
PlayerLevelUp(p) ==
    [p EXCEPT !.hpBar = BarSetValue(BarSetMax(p.hpBar, PlayerMaxHpOf(p.level, p.stats)), PlayerMaxHpOf(p.level, p.stats)),
              !.mpBar = BarSetValue(BarSetMax(p.mpBar, PlayerMaxMpOf(p.level, p.stats)), PlayerMaxMpOf(p.level, p.stats))]

\* gainExp(amount)
PlayerGainExp(p, amount) ==
    LET r == LevelGainExp(p.level, amount)
        q == [p EXCEPT !.level = r.level]
    IN IF r.leveledUp THEN PlayerLevelUp(q) ELSE q

\* inventory.indexOf(weapon), 1-based; 0 when the object is not in the list
IndexOf(inv, item) ==
    IF \E i \in 1 .. Len(inv) : inv[i] = item
    THEN CHOOSE i \in 1 .. Len(inv) : inv[i] = item /\ \A j \in 1 .. (i - 1) : inv[j] # item
    ELSE 0

\* inventory.splice(index, 1)
RemoveAt(inv, i) == SubSeq(inv, 1, i - 1) \o SubSeq(inv, i + 1, Len(inv))

\* equipWeapon(weapon) without the test of weapon.type
PlayerEquipWeapon_AnyType(p, weapon) ==
    LET pushed == Append(p.inventory, p.equippedWeapon)
        index == IndexOf(pushed, weapon)
    IN [p EXCEPT !.equippedWeapon = weapon,
                 !.inventory = IF index > 0 THEN RemoveAt(pushed, index) ELSE pushed]

\* equipWeapon(weapon)
PlayerEquipWeapon(p, weapon) ==
    IF ~(weapon.hasType /\ weapon.type = "Weapon") THEN p
    ELSE LET pushed == Append(p.inventory, p.equippedWeapon)
             index == IndexOf(pushed, weapon)
         IN [p EXCEPT !.equippedWeapon = weapon,
                      !.inventory = IF index > 0 THEN RemoveAt(pushed, index) ELSE pushed]

\* ----------------------------------------------------------------- combat
\* Math.floor(damage * GAME_CONSTANTS.CRITICAL_MULTIPLIER)
CriticalDamage(damage) ==
    (damage * CRITICAL_MULTIPLIER_NUM) \div CRITICAL_MULTIPLIER_DEN

\* mitigation with the floor of 1 forgotten
Mitigate_NoMinimum(damage, defenseX2) == damage - (defenseX2 \div 2)

\* Math.max(1, damage - Math.floor(defense)), the defense given doubled
Mitigate(damage, defenseX2) == Max(1, damage - (defenseX2 \div 2))

NoAttack ==
    [attacker |-> "none", hit |-> FALSE, critical |-> FALSE,
     evasionTested |-> FALSE, evaded |-> FALSE, hitChance |-> 0,
     defenderEvasion |-> 0, attackPower |-> 0, defenseX2 |-> 0, damage |-> 0,
     applied |-> FALSE, hpBefore |-> 0, hpAfter |-> 0, stages |-> <<>>]

\* the player's turn, lines 325-341: the attack's record and the monster after it
PlayerTurnOutcome(p, m, dHit, dCrit) ==
    LET hit == Odds(PlayerHitChance(p), 1, dHit)
        isCritical == hit /\ Odds(PlayerCriticalChanceX2(p), 2, dCrit)
        damage == IF isCritical THEN CriticalDamage(PlayerAttackPower(p))
                  ELSE PlayerAttackPower(p)
        actualDamage == Mitigate(damage, MonsterDefenseX2(m))
        after == IF hit THEN MonsterTakeDamage(m, actualDamage) ELSE m
    IN [monster |-> after,
        attack |->
          [attacker |-> "player", hit |-> hit, critical |-> isCritical,
           evasionTested |-> FALSE, evaded |-> FALSE,
           hitChance |-> PlayerHitChance(p),
           defenderEvasion |-> MonsterEvasionRate(m),
           attackPower |-> PlayerAttackPower(p),
           defenseX2 |-> MonsterDefenseX2(m),
           damage |-> IF hit THEN actualDamage ELSE 0,
           applied |-> hit,
           hpBefore |-> m.hpBar.position, hpAfter |-> after.hpBar.position,
           stages |-> IF hit
                      THEN <<"hit", "critical", "damage", "mitigation", "apply">>
                      ELSE <<"hit">>]]

\* the monster's attack, lines 355-376: the attack's record and the player after it
MonsterAttackOutcome(m, p, dHit, dCrit, dEvade) ==
    LET hit == Odds(MonsterHitChance(m), 1, dHit)
        isCritical == hit /\ Odds(MonsterCriticalChance(m), 1, dCrit)
        damage == IF isCritical THEN CriticalDamage(MonsterAttackPower(m))
                  ELSE MonsterAttackPower(m)
        mitigated == Mitigate(damage, 2 * PlayerDefense(p))
        evaded == hit /\ Odds(PlayerEvasionRate(p), 1, dEvade)
        actualDamage == IF evaded THEN 0 ELSE mitigated
        after == IF hit THEN PlayerTakeDamage(p, actualDamage) ELSE p
    IN [player |-> after,
        attack |->
          [attacker |-> "monster", hit |-> hit, critical |-> isCritical,
           evasionTested |-> hit, evaded |-> evaded,
           hitChance |-> MonsterHitChance(m),
           defenderEvasion |-> PlayerEvasionRate(p),
           attackPower |-> MonsterAttackPower(m),
           defenseX2 |-> 2 * PlayerDefense(p),
           damage |-> IF hit THEN actualDamage ELSE 0,
           applied |-> hit,
           hpBefore |-> p.hpBar.position, hpAfter |-> after.hpBar.position,
           stages |-> IF hit
                      THEN <<"hit", "critical", "damage", "mitigation", "evasion", "apply">>
                      ELSE <<"hit">>]]

\* the item drop, lines 422-455: what the try block throws on (JSON.parse,
\* newItem.type of null, newItem.damage.split of a weapon whose damage is no string)
ItemTryThrows(parsed) ==
    \/ parsed.threw
    \/ parsed.v.isNull
    \/ (parsed.v.hasType /\ parsed.v.type = "Weapon" /\ parsed.v.dmgKind # "string")

\* the item drop, lines 422-455: the player after it; at line 438
\* player.equippedWeapon.damage.split throws when that damage is no string
ItemDropOutcome(p, http, id) ==
    LET parsed == JsonParse(StripFence(GetGemmaResponse(http))) IN
    IF ItemTryThrows(parsed) THEN p
    ELSE LET newItem == ItemObject(parsed.v, id) IN
         IF newItem.hasType /\ newItem.type = "Weapon"
         THEN IF p.equippedWeapon.dmgKind # "string" THEN p
              ELSE IF NumGreater(DamageDie(newItem.damage), DamageDie(p.equippedWeapon.damage))
              THEN PlayerEquipWeapon(p, newItem)
              ELSE [p EXCEPT !.inventory = Append(p.inventory, newItem)]
         ELSE [p EXCEPT !.inventory = Append(p.inventory, newItem)]

\* ------------------------------------------------------ generator answers
Str_bolster_defense ==
    <<"b", "o", "l", "s", "t", "e", "r", " ", "d", "e", "f", "e", "n", "s", "e">>

\* what the HTTP call for an action may come to
ActionHttps ==
    {HttpError, HttpEmpty}
    \cup { HttpOk(PlainText(f, "The monster lunges at the elf.")) : f \in {"none", "plain"} }
    \cup { HttpOk(JsonText(f, v)) : f \in Fences, v \in ({ ActionJson(TRUE, "absent", <<>>),
          ActionJson(FALSE, "absent", <<>>),
          ActionJson(FALSE, "number", <<>>) }
          \cup { ActionJson(FALSE, "string", a) : a \in {Str_attack, <<"A", "t", "t", "a", "c", "k">>, Str_defend, <<"D", "E", "F", "E", "N", "D">>, Str_bolster_defense, <<"D", "e", "f", "e", "n", "s", "i", "v", "e">>, <<"f", "l", "e", "e">>, <<>>} }) }

\* the answers used inside the game loop
GameActionHttps ==
    { HttpError,
      HttpOk(JsonText("none", ActionJson(FALSE, "string", Str_bolster_defense))) }

\* a small, tough and weak monster that follows the format asked for, but for
\* base_exp, which it leaves out
GoblinJson ==
    MonsterJson(FALSE, TRUE, "Goblin", TRUE,
                [t \in StatTypes \cup {"HP"} |->
                   CASE t = "HP" -> 3 [] t = "STR" -> 3 [] t = "CON" -> 16 [] OTHER -> 8],
                TRUE, 3, 0, 60, "list")

\* a monster whose special_abilities is one string and whose base_exp is large
SlimeJson ==
    MonsterJson(FALSE, TRUE, "Slime", TRUE,
                [t \in {"STR", "CON"} |-> 0],
                TRUE, 4, 460, 0, "string")

\* what the HTTP call for a monster may come to
MonsterHttps ==
    {HttpError, HttpEmpty}
    \cup { HttpOk(PlainText(f, "Here is your monster!")) : f \in {"none", "plain"} }
    \cup { HttpOk(JsonText(f, v)) : f \in Fences, v \in { GoblinJson, SlimeJson,
          MonsterJson(TRUE, FALSE, "", FALSE, [t \in {"HP"} |-> 0], FALSE, 0, 0, 0, "absent"),
          [GoblinJson EXCEPT !.hasName = FALSE, !.name = ""],
          [GoblinJson EXCEPT !.name = ""],
          [GoblinJson EXCEPT !.hasStats = FALSE, !.stats = [t \in {"HP"} |-> 0]],
          [GoblinJson EXCEPT !.hasHp = FALSE, !.hp = 0],
          [GoblinJson EXCEPT !.hp = 0],
          [GoblinJson EXCEPT !.hp = 0 - 5] } }

\* the answers used inside the game loop
GameMonsterHttps ==
    { HttpError,
      HttpOk(JsonText("json", GoblinJson)),
      HttpOk(JsonText("none", SlimeJson)) }

Str_1d8 == <<"1", "d", "8">>

\* the JSON values an item generator may answer with
ItemValues ==
    { ItemJson(FALSE, TRUE, "Elven Blade", TRUE, "Weapon", "string", Str_1d8),
      ItemJson(FALSE, TRUE, "Twig", TRUE, "Weapon", "string", <<"2", "d", "3">>),
      ItemJson(FALSE, TRUE, "Healing Potion", TRUE, "Potion", "absent", <<>>),
      ItemJson(TRUE, FALSE, "", FALSE, "", "absent", <<>>),
      ItemJson(FALSE, TRUE, "Rusty Key", FALSE, "", "absent", <<>>),
      ItemJson(FALSE, FALSE, "", FALSE, "", "absent", <<>>),
      ItemJson(FALSE, TRUE, "Bent Sword", TRUE, "Weapon", "absent", <<>>),
      ItemJson(FALSE, TRUE, "Heavy Club", TRUE, "Weapon", "number", <<>>),
      ItemJson(FALSE, TRUE, "Odd Knife", TRUE, "Weapon", "string", <<"s", "h", "a", "r", "p">>) }

\* the answers used inside the game loop
GameItemHttps ==
    { HttpError,
      HttpOk(JsonText("json", ItemJson(FALSE, TRUE, "Elven Blade", TRUE, "Weapon",
                                       "string", Str_1d8))),
      HttpOk(JsonText("json", ItemJson(FALSE, TRUE, "Rusty Key", FALSE, "", "absent", <<>>))) }

\* ------------------------------------------------------------ idle values
IdleConfig == Config(80, 10, 5, PlainStats)
NoMonster == MonsterNew(FallbackMonsterData(1))
NoGen == [called |-> FALSE, level |-> 1, http |-> HttpError, threw |-> FALSE,
          monster |-> NoMonster]
NoAction == [called |-> FALSE, http |-> HttpError, threw |-> FALSE, type |-> "none"]
NoCallLog ==
    [op |-> "none", amount |-> 0, num |-> 0, flag |-> FALSE, threw |-> FALSE,
     item |-> WornDagger, http |-> HttpError, data |-> FallbackMonsterData(1),
     before |-> PlayerNew(IdleConfig.DEFAULT_PLAYER_STATS), monsterBefore |-> NoMonster]
NoReward == [happened |-> FALSE, exp |-> 0, gold |-> 0, dropped |-> FALSE,
             itemDone |-> FALSE, http |-> HttpError, before |-> PlayerNew(IdleConfig.DEFAULT_PLAYER_STATS)]

\* ------------------------------------------- Stats over any JS value
\* a JS value as Stats meets it: a number n, NaN (of type number), a string
\* that is no numeral, or undefined
JsNum(n) == [kind |-> "number", n |-> n]
JsNaN == [kind |-> "NaN", n |-> 0]
JsStr == [kind |-> "string", n |-> 0]
JsUndefined == [kind |-> "undefined", n |-> 0]

\* typeof value === 'number'
JsIsNumberType(v) == v.kind \in {"number", "NaN"}

\* value < 0 (false for NaN)
JsNegative(v) == v.kind = "number" /\ v.n < 0

\* new Stats(values), lines 13-18: values[type] unless undefined, else 10;
\* nothing is validated and keys outside StatType are not copied
JsStatsNew(values) ==
    [t \in StatTypes |->
        IF t \in DOMAIN values /\ values[t].kind # "undefined"
        THEN values[t] ELSE JsNum(10)]

\* const { HP, ...coreStats } = monsterData.stats, bar.js line 121
MonsterCoreStats(json) == [k \in (DOMAIN json) \ {"HP"} |-> json[k]]

\* Stats.get(statType), lines 25-32
JsStatsGetThrows(statType) == statType \notin StatTypes /\ statType # "LUCK"
JsStatsGet(st, statType) ==
    IF statType \notin StatTypes
    THEN (IF statType = "LUCK" THEN JsNum(10) ELSE JsUndefined)
    ELSE st[statType]

\* set with the sign test forgotten
JsStatsSetThrows_NoSign(statType, value) ==
    statType \notin StatTypes \/ ~JsIsNumberType(value)

\* Stats.set(statType, value), lines 39-47: the two guards
JsStatsSetThrows(statType, value) ==
    \/ statType \notin StatTypes
    \/ ~JsIsNumberType(value) \/ JsNegative(value)

\* Stats.set(statType, value): the object after the call
JsStatsSet(st, statType, value) ==
    IF JsStatsSetThrows(statType, value) THEN st
    ELSE [st EXCEPT ![statType] = value]

\* calculateStatBonus of a stored value: NaN unless the value is a number
JsCalculateStatBonus(v) ==
    IF v.kind = "number" THEN JsNum(CalculateStatBonus(v.n)) ELSE JsNaN

\* Stats.getBonus(statType), lines 54-60: throws only if the get it calls does
JsStatsGetBonusThrows(statType) ==
    /\ ~(statType \notin StatTypes /\ statType # "LUCK")
    /\ JsStatsGetThrows(statType)
JsStatsGetBonus(st, statType) ==
    IF statType \notin StatTypes /\ statType # "LUCK" THEN JsNum(0)
    ELSE JsCalculateStatBonus(JsStatsGet(st, statType))

\* --------------------------------------------------------- Stats driver
\* the numbers tried as stat values
StatNumbers == {0 - 1, 0, 7, 10, 18, MaxStat}
\* values a caller can pass, and values a JSON answer can hold
JsInputs == { JsNum(n) : n \in StatNumbers } \cup {JsNaN, JsStr, JsUndefined}
JsonInputs == { JsNum(n) : n \in StatNumbers } \cup {JsStr}
NoValues == [k \in {} |-> JsNum(10)]
\* new Stats(values) by a caller: STR and DEX given or not
CallerValues == UNION { [D -> JsInputs] : D \in SUBSET {"STR", "DEX"} }
\* monsterData.stats of a generated monster: none, STR alone, or STR with HP
\* and a key of the generator's own
GeneratorStats ==
    {NoValues}
    \cup { [k \in {"STR"} |-> v] : v \in JsonInputs }
    \cup { [k \in {"STR", "HP", "MAGIC"} |-> IF k = "STR" THEN v ELSE JsNum(18)] :
             v \in JsonInputs }
\* the names the driver passes to get, set and getBonus
StatNames == {"STR", "DEX", "CHA", "LUCK", "FOO"}
NoStatsLog == [op |-> "new", origin |-> "default", key |-> "", value |-> JsUndefined,
               arg |-> NoValues, threw |-> FALSE, ret |-> JsUndefined,
               before |-> JsStatsNew(NoValues)]

\* ----------------------------------------------------------- Bar driver
BarArgs == (0 - 2) .. (MaxBar + 2)
NoBar == [max |-> 0, position |-> 0]
NoBarLog == [op |-> "none", arg |-> 0, init |-> 0, threw |-> FALSE, before |-> NoBar]


\* --------------------------------------------------------- Level driver
\* amounts around each threshold, and the 2 * threshold + 1 of each level
ExpAmounts ==
    (0 .. 2)
    \cup { CalculateExpToNextLevel(L) + d : L \in 1 .. MaxLevel, d \in {0 - 1, 0, 1} }
    \cup { 2 * CalculateExpToNextLevel(L) + 1 : L \in 1 .. MaxLevel }

NoLvlLog == [called |-> FALSE, amount |-> 0, ret |-> FALSE, before |-> LevelNew(1, 0)]


\* ------------------------------------------------------ Bar driver steps
\* new Bar(max) and new Bar(max, initialPosition)
BarConstruct ==
    /\ ~barLive
    /\ \E max \in BarArgs, useDefault \in BOOLEAN, init \in BarArgs :
         LET initialPosition == IF useDefault THEN max ELSE init IN
         /\ barLog' = [op |-> IF useDefault THEN "new1" ELSE "new2",
                       arg |-> max, init |-> initialPosition,
                       threw |-> BarCtorThrows(max), before |-> bar]
         /\ IF BarCtorThrows(max)
            THEN UNCHANGED <<bar, barLive>>
            ELSE bar' = BarNew(max, initialPosition) /\ barLive' = TRUE
    /\ UNCHANGED <<callLog, lvl, lvlLog, statsObj, statsLog, gen, cfg, pc, player, monster, combatCount, acted, lastAttack, lastAction, lastReward>>

\* bar.value = v
BarAssignValue ==
    /\ barLive
    /\ \E v \in BarArgs :
         /\ bar' = BarSetValue(bar, v)
         /\ barLog' = [op |-> "value", arg |-> v, init |-> 0, threw |-> FALSE, before |-> bar]
    /\ UNCHANGED <<callLog, barLive, lvl, lvlLog, statsObj, statsLog, gen, cfg, pc, player, monster, combatCount, acted, lastAttack, lastAction, lastReward>>

\* bar.value += delta (read through get value, written through set value)
BarAdjust ==
    /\ barLive
    /\ \E delta \in BarArgs :
         /\ bar' = BarSetValue(bar, bar.position + delta)
         /\ barLog' = [op |-> "adjust", arg |-> delta, init |-> 0, threw |-> FALSE,
                       before |-> bar]
    /\ UNCHANGED <<callLog, barLive, lvl, lvlLog, statsObj, statsLog, gen, cfg, pc, player, monster, combatCount, acted, lastAttack, lastAction, lastReward>>

\* bar.max = m
BarAssignMax ==
    /\ barLive
    /\ \E m \in BarArgs :
         /\ bar' = BarSetMax(bar, m)
         /\ barLog' = [op |-> "max", arg |-> m, init |-> 0, threw |-> BarSetMaxThrows(m),
                       before |-> bar]
    /\ UNCHANGED <<callLog, barLive, lvl, lvlLog, statsObj, statsLog, gen, cfg, pc, player, monster, combatCount, acted, lastAttack, lastAction, lastReward>>

NextBar == BarConstruct \/ BarAssignValue \/ BarAssignMax \/ BarAdjust

\* no Bar constructed yet; the other objects idle
InitBar ==
    /\ bar = NoBar /\ barLive = FALSE /\ barLog = NoBarLog
    /\ lvl = LevelNew(1, 0) /\ lvlLog = NoLvlLog
    /\ statsObj = JsStatsNew(NoValues) /\ statsLog = NoStatsLog
    /\ gen = NoGen
    /\ cfg = IdleConfig /\ pc = "idle" /\ player = PlayerNew(IdleConfig.DEFAULT_PLAYER_STATS)
    /\ monster = NoMonster /\ combatCount = 0 /\ acted = "none"
    /\ lastAttack = NoAttack /\ lastAction = NoAction /\ lastReward = NoReward
    /\ callLog = NoCallLog

SpecBar == InitBar /\ [][NextBar]_vars

\* ---------------------------------------------------- Level driver steps
\* level.gainExp(amount), amount >= 0
LevelGain ==
    /\ lvl.value <= MaxLevel + 2
    /\ \E amount \in ExpAmounts :
         LET r == LevelGainExp(lvl, amount) IN
         /\ lvl' = r.level
         /\ lvlLog' = [called |-> TRUE, amount |-> amount, ret |-> r.leveledUp,
                       before |-> lvl]
    /\ UNCHANGED <<callLog, bar, barLive, barLog, statsObj, statsLog, gen, cfg, pc, player, monster, combatCount, acted, lastAttack, lastAction, lastReward>>

NextLevel == LevelGain

\* new Level(): level 1, exp 0; the other objects idle
InitLevel ==
    /\ lvl = LevelNew(1, 0) /\ lvlLog = NoLvlLog
    /\ statsObj = JsStatsNew(NoValues) /\ statsLog = NoStatsLog
    /\ bar = NoBar /\ barLive = FALSE /\ barLog = NoBarLog
    /\ gen = NoGen
    /\ cfg = IdleConfig /\ pc = "idle" /\ player = PlayerNew(IdleConfig.DEFAULT_PLAYER_STATS)
    /\ monster = NoMonster /\ combatCount = 0 /\ acted = "none"
    /\ lastAttack = NoAttack /\ lastAction = NoAction /\ lastReward = NoReward
    /\ callLog = NoCallLog

SpecLevel == InitLevel /\ [][NextLevel]_vars

\* ------------------------------------- gainExp, one loop iteration a step

\* gainExp(amount) entered: this.exp += amount, then checkAndProcessLevelUp()
GainExpEnter ==
    /\ pc = "gainIdle"
    /\ lvl.value <= MaxLevel + 2
    /\ \E amount \in ExpAmounts :
         /\ lvl' = [lvl EXCEPT !.exp = lvl.exp + amount]
         /\ lvlLog' = [called |-> TRUE, amount |-> amount, ret |-> FALSE, before |-> lvl]
    /\ pc' = "gainLoop"
    /\ UNCHANGED <<callLog, bar, barLive, barLog, statsObj, statsLog, gen, cfg, player, monster, combatCount, acted, lastAttack, lastAction, lastReward>>

\* one iteration of while (this.exp >= this.expToNextLevel)
GainExpIterate ==
    /\ pc = "gainLoop"
    /\ lvl.exp >= lvl.expToNextLevel
    /\ lvl' = LevelUp(lvl)
    /\ lvlLog' = [lvlLog EXCEPT !.ret = TRUE]
    /\ UNCHANGED <<callLog, bar, barLive, barLog, statsObj, statsLog, gen, cfg, pc, player, monster, combatCount, acted, lastAttack, lastAction, lastReward>>

\* the loop condition fails: return leveledUp
GainExpReturn ==
    /\ pc = "gainLoop"
    /\ ~(lvl.exp >= lvl.expToNextLevel)
    /\ pc' = "gainIdle"
    /\ UNCHANGED <<callLog, bar, barLive, barLog, lvl, lvlLog, statsObj, statsLog, gen, cfg, player, monster, combatCount, acted, lastAttack, lastAction, lastReward>>

NextGainExp == GainExpEnter \/ GainExpIterate \/ GainExpReturn

\* new Level(initialLevel, initialExp) with initialLevel >= 1; the other objects idle
InitGainExp ==
    /\ lvl \in { LevelNew(L, e) : L \in 1 .. MaxLevel, e \in {0, 149, 150, 500} }
    /\ lvlLog = NoLvlLog
    /\ statsObj = JsStatsNew(NoValues) /\ statsLog = NoStatsLog
    /\ bar = NoBar /\ barLive = FALSE /\ barLog = NoBarLog
    /\ gen = NoGen
    /\ cfg = IdleConfig /\ pc = "gainIdle" /\ player = PlayerNew(IdleConfig.DEFAULT_PLAYER_STATS)
    /\ monster = NoMonster /\ combatCount = 0 /\ acted = "none"
    /\ lastAttack = NoAttack /\ lastAction = NoAction /\ lastReward = NoReward
    /\ callLog = NoCallLog

\* the call runs on one thread: a step that can be taken is taken
SpecGainExp ==
    InitGainExp /\ [][NextGainExp]_vars /\ WF_vars(GainExpIterate) /\ WF_vars(GainExpReturn)

\* ---------------------------------------------------- Stats driver steps
\* new Stats(), new Stats(values), and the Stats of new Monster(monsterData)
StatsConstruct ==
    /\ \E origin \in {"default", "caller", "monster"} :
         \E values \in (CASE origin = "default" -> {NoValues}
                          [] origin = "caller" -> CallerValues
                          [] OTHER -> GeneratorStats) :
           LET passed == IF origin = "monster" THEN MonsterCoreStats(values) ELSE values
           IN /\ statsObj' = JsStatsNew(passed)
              /\ statsLog' = [op |-> "new", origin |-> origin, key |-> "",
                              value |-> JsUndefined, arg |-> values, threw |-> FALSE,
                              ret |-> JsUndefined, before |-> statsObj]
    /\ UNCHANGED <<callLog, bar, barLive, barLog, lvl, lvlLog, gen, cfg, pc, player, monster, combatCount, acted, lastAttack, lastAction, lastReward>>

\* stats.set(statType, value)
StatsSetCall ==
    /\ \E statType \in StatNames \ {"CHA"}, value \in JsInputs :
         /\ statsObj' = JsStatsSet(statsObj, statType, value)
         /\ statsLog' = [op |-> "set", origin |-> "", key |-> statType, value |-> value,
                         arg |-> NoValues, threw |-> JsStatsSetThrows(statType, value),
                         ret |-> JsUndefined, before |-> statsObj]
    /\ UNCHANGED <<callLog, bar, barLive, barLog, lvl, lvlLog, gen, cfg, pc, player, monster, combatCount, acted, lastAttack, lastAction, lastReward>>

\* stats.get(statType)
StatsGetCall ==
    /\ \E statType \in StatNames :
         statsLog' = [op |-> "get", origin |-> "", key |-> statType, value |-> JsUndefined,
                      arg |-> NoValues, threw |-> JsStatsGetThrows(statType),
                      ret |-> JsStatsGet(statsObj, statType), before |-> statsObj]
    /\ UNCHANGED <<callLog, statsObj, bar, barLive, barLog, lvl, lvlLog, gen, cfg, pc, player, monster, combatCount, acted, lastAttack, lastAction, lastReward>>

\* stats.getBonus(statType)
StatsGetBonusCall ==
    /\ \E statType \in StatNames :
         statsLog' = [op |-> "getBonus", origin |-> "", key |-> statType,
                      value |-> JsUndefined, arg |-> NoValues,
                      threw |-> JsStatsGetBonusThrows(statType),
                      ret |-> JsStatsGetBonus(statsObj, statType), before |-> statsObj]
    /\ UNCHANGED <<callLog, statsObj, bar, barLive, barLog, lvl, lvlLog, gen, cfg, pc, player, monster, combatCount, acted, lastAttack, lastAction, lastReward>>

NextStats == StatsConstruct \/ StatsSetCall \/ StatsGetCall \/ StatsGetBonusCall

\* new Stats(): every stat 10; the other objects idle
InitStats ==
    /\ statsObj = JsStatsNew(NoValues) /\ statsLog = NoStatsLog
    /\ lvl = LevelNew(1, 0) /\ lvlLog = NoLvlLog
    /\ bar = NoBar /\ barLive = FALSE /\ barLog = NoBarLog
    /\ gen = NoGen
    /\ cfg = IdleConfig /\ pc = "idle" /\ player = PlayerNew(IdleConfig.DEFAULT_PLAYER_STATS)
    /\ monster = NoMonster /\ combatCount = 0 /\ acted = "none"
    /\ lastAttack = NoAttack /\ lastAction = NoAction /\ lastReward = NoReward
    /\ callLog = NoCallLog

SpecStats == InitStats /\ [][NextStats]_vars

\* -------------------------------------------------- Monster driver steps

\* new Monster(monsterData), the data with 10 HP and STR absent or one of
\* several scores, with CON given or not
MonsterConstruct ==
    /\ \E data \in
           { MonsterJson(FALSE, TRUE, "Orc", TRUE, [t \in {"CON"} |-> 10], TRUE, 10, 0, 0, "list") }
           \cup { MonsterJson(FALSE, TRUE, "Orc", TRUE, [t \in {"STR"} |-> v], TRUE, 10, 0, 0, "list") :
                    v \in {0 - 3, 0, 1, 5, 10, 14, MaxStat} }
           \cup { MonsterJson(FALSE, TRUE, "Orc", TRUE, [t \in {"STR", "CON"} |-> v], TRUE, 10, 0, 0, "list") :
                    v \in {0 - 3, 0, 1, 5, 10, 14, MaxStat} } :
         /\ ~MonsterCtorThrows(data)
         /\ monster' = MonsterNew(data)
         /\ callLog' = [NoCallLog EXCEPT !.op = "newMonster", !.data = data, !.monsterBefore = monster]
    /\ UNCHANGED <<bar, barLive, barLog, lvl, lvlLog, statsObj, statsLog, gen, cfg, pc, player, combatCount, acted, lastAttack, lastAction, lastReward>>

\* monster.attackPower
MonsterReadAttackPower ==
    /\ callLog.op # "none"
    /\ callLog' = [callLog EXCEPT !.op = "monsterAttackPower", !.num = MonsterAttackPower(monster), !.amount = 0, !.flag = FALSE, !.monsterBefore = monster]
    /\ UNCHANGED <<bar, barLive, barLog, lvl, lvlLog, statsObj, statsLog, gen, cfg, pc, player, monster, combatCount, acted, lastAttack, lastAction, lastReward>>

\* monster.takeDamage(amount)
MonsterTakeDamageCall ==
    /\ callLog.op # "none"
    /\ \E amount \in {2, 5} :
         /\ monster' = MonsterTakeDamage(monster, amount)
         /\ callLog' = [callLog EXCEPT !.op = "monsterTakeDamage", !.amount = amount, !.num = 0, !.flag = MonsterTakeDamageReturns(monster, amount), !.monsterBefore = monster]
    /\ UNCHANGED <<bar, barLive, barLog, lvl, lvlLog, statsObj, statsLog, gen, cfg, pc, player, combatCount, acted, lastAttack, lastAction, lastReward>>

NextMonster == MonsterConstruct \/ MonsterReadAttackPower \/ MonsterTakeDamageCall

\* no Monster constructed yet; the other objects idle
InitMonster ==
    /\ monster = NoMonster /\ callLog = NoCallLog
    /\ bar = NoBar /\ barLive = FALSE /\ barLog = NoBarLog
    /\ lvl = LevelNew(1, 0) /\ lvlLog = NoLvlLog
    /\ statsObj = JsStatsNew(NoValues) /\ statsLog = NoStatsLog
    /\ gen = NoGen
    /\ cfg = IdleConfig /\ pc = "idle" /\ player = PlayerNew(IdleConfig.DEFAULT_PLAYER_STATS)
    /\ combatCount = 0 /\ acted = "none"
    /\ lastAttack = NoAttack /\ lastAction = NoAction /\ lastReward = NoReward

SpecMonster == InitMonster /\ [][NextMonster]_vars

\* ------------------------------------------- Player weapon driver steps

\* the items the player holds: the equipped weapon and the inventory
HeldItems(p) == {p.equippedWeapon} \cup { p.inventory[i] : i \in 1 .. Len(p.inventory) }

\* an identity no held object has
FreshId(p) == 1 + (CHOOSE n \in { h.id : h \in HeldItems(p) } : \A h \in HeldItems(p) : h.id <= n)

\* player.equipWeapon(weapon) with a new object
ArsenalEquip ==
    /\ Len(player.inventory) < MaxInventory
    /\ \E v \in { v \in ItemValues : ~v.isNull } :
         LET weapon == ItemObject(v, FreshId(player)) IN
         /\ player' = PlayerEquipWeapon(player, weapon)
         /\ callLog' = [NoCallLog EXCEPT !.op = "equip", !.item = weapon, !.before = player]
    /\ UNCHANGED <<bar, barLive, barLog, lvl, lvlLog, statsObj, statsLog, gen, cfg, pc, monster, combatCount, acted, lastAttack, lastAction, lastReward>>

\* player.equipWeapon(player.inventory[i])
ArsenalEquipHeld ==
    /\ \E i \in 1 .. Len(player.inventory) :
         /\ player' = PlayerEquipWeapon(player, player.inventory[i])
         /\ callLog' = [NoCallLog EXCEPT !.op = "equipHeld", !.item = player.inventory[i], !.before = player]
    /\ UNCHANGED <<bar, barLive, barLog, lvl, lvlLog, statsObj, statsLog, gen, cfg, pc, monster, combatCount, acted, lastAttack, lastAction, lastReward>>

\* the item drop of part_000 lines 422-455 for any answer
ArsenalLoot ==
    /\ Len(player.inventory) < MaxInventory
    /\ \E http \in ({ HttpError } \cup { HttpOk(JsonText("json", v)) : v \in ItemValues \cup {[WornDagger EXCEPT !.name = "Short Knife"]} }) :
         /\ player' = ItemDropOutcome(player, http, FreshId(player))
         /\ callLog' = [NoCallLog EXCEPT !.op = "loot", !.http = http, !.before = player]
    /\ UNCHANGED <<bar, barLive, barLog, lvl, lvlLog, statsObj, statsLog, gen, cfg, pc, monster, combatCount, acted, lastAttack, lastAction, lastReward>>

\* player.attackPower, and the damage of part_000 line 335 it gives on the
\* monster; the getter throws when equippedWeapon.damage is a number (no split)
\* and gives NaN when the damage string holds no die to parse
ArsenalReadAttackPower ==
    /\ callLog' = [NoCallLog EXCEPT !.op = "attackPower",
                                    !.threw = (player.equippedWeapon.dmgKind = "number"),
                                    !.flag = (player.equippedWeapon.dmgKind = "string" /\ player.equippedWeapon.damage # <<>> /\ DamageDie(player.equippedWeapon.damage).nan),
                                    !.num = PlayerAttackPower(player),
                                    !.amount = Mitigate(PlayerAttackPower(player), MonsterDefenseX2(monster)),
                                    !.before = player]
    /\ UNCHANGED <<bar, barLive, barLog, lvl, lvlLog, statsObj, statsLog, gen, cfg, pc, player, monster, combatCount, acted, lastAttack, lastAction, lastReward>>

NextArsenal == ArsenalEquip \/ ArsenalEquipHeld \/ ArsenalLoot \/ ArsenalReadAttackPower

\* new Player({ stats }) for some STR, facing the training monster
InitArsenal ==
    /\ player \in { PlayerNew([PlainStats EXCEPT !["STR"] = v]) : v \in {1, 10, 14, 15} }
    /\ monster = (MonsterNew(MonsterJson(FALSE, TRUE, "Orc", TRUE, [t \in {"CON"} |-> 10], TRUE, 10, 0, 0, "list"))) /\ callLog = NoCallLog
    /\ bar = NoBar /\ barLive = FALSE /\ barLog = NoBarLog
    /\ lvl = LevelNew(1, 0) /\ lvlLog = NoLvlLog
    /\ statsObj = JsStatsNew(NoValues) /\ statsLog = NoStatsLog
    /\ gen = NoGen
    /\ cfg = IdleConfig /\ pc = "idle"
    /\ combatCount = 0 /\ acted = "none"
    /\ lastAttack = NoAttack /\ lastAction = NoAction /\ lastReward = NoReward

SpecArsenal == InitArsenal /\ [][NextArsenal]_vars

\* ----------------------------------------- Player progress driver steps

\* player.takeDamage(amount)
ProgressTakeDamage ==
    /\ \E amount \in {3, 40} :
         /\ player' = PlayerTakeDamage(player, amount)
         /\ callLog' = [NoCallLog EXCEPT !.op = "takeDamage", !.amount = amount, !.before = player]
    /\ UNCHANGED <<bar, barLive, barLog, lvl, lvlLog, statsObj, statsLog, gen, cfg, pc, monster, combatCount, acted, lastAttack, lastAction, lastReward>>

\* player.gainExp(amount)
ProgressGainExp ==
    /\ player.level.value <= MaxLevel
    /\ \E amount \in {0, 10, 150, 750} :
         /\ player' = PlayerGainExp(player, amount)
         /\ callLog' = [NoCallLog EXCEPT !.op = "gainExp", !.amount = amount, !.before = player]
    /\ UNCHANGED <<bar, barLive, barLog, lvl, lvlLog, statsObj, statsLog, gen, cfg, pc, monster, combatCount, acted, lastAttack, lastAction, lastReward>>

NextProgress == ProgressTakeDamage \/ ProgressGainExp

\* new Player({ stats }) for some CON and INT; the other objects idle
InitProgress ==
    /\ player \in { PlayerNew(st) : st \in { [PlainStats EXCEPT !["CON"] = c, !["INT"] = i] : c \in {8, 10, 14}, i \in {10, 13} } }
    /\ callLog = NoCallLog /\ monster = NoMonster
    /\ bar = NoBar /\ barLive = FALSE /\ barLog = NoBarLog
    /\ lvl = LevelNew(1, 0) /\ lvlLog = NoLvlLog
    /\ statsObj = JsStatsNew(NoValues) /\ statsLog = NoStatsLog
    /\ gen = NoGen
    /\ cfg = IdleConfig /\ pc = "idle"
    /\ combatCount = 0 /\ acted = "none"
    /\ lastAttack = NoAttack /\ lastAction = NoAction /\ lastReward = NoReward

SpecProgress == InitProgress /\ [][NextProgress]_vars

\* ------------------------------------------------ generator driver steps
\* createLLMMonster(playerLevel, hint) for any level and any answer
GenCreate ==
    /\ ~gen.called
    /\ \E level \in 1 .. MaxGenLevel, http \in MonsterHttps :
         LET r == CreateLLMMonster(level, http) IN
         gen' = [called |-> TRUE, level |-> level, http |-> http,
                 threw |-> r.threw, monster |-> r.monster]
    /\ lastAction' = NoAction
    /\ UNCHANGED <<callLog, bar, barLive, barLog, lvl, lvlLog, statsObj, statsLog, cfg, pc, player, monster, combatCount,
                   acted, lastAttack, lastReward>>

\* monster.chooseAction(player) on the monster created last, for any answer
GenChooseAction ==
    /\ gen.called /\ ~lastAction.called
    /\ \E http \in ActionHttps :
         LET r == ChooseAction(gen.monster, http) IN
         lastAction' = [called |-> TRUE, http |-> http, threw |-> r.threw, type |-> r.type]
    /\ UNCHANGED <<callLog, bar, barLive, barLog, lvl, lvlLog, statsObj, statsLog, gen, cfg, pc, player, monster, combatCount,
                   acted, lastAttack, lastReward>>

NextGen == GenCreate \/ GenChooseAction

\* no generator called yet; the other objects idle
InitGen ==
    /\ gen = NoGen /\ lastAction = NoAction
    /\ bar = NoBar /\ barLive = FALSE /\ barLog = NoBarLog
    /\ lvl = LevelNew(1, 0) /\ lvlLog = NoLvlLog
    /\ statsObj = JsStatsNew(NoValues) /\ statsLog = NoStatsLog
    /\ cfg = IdleConfig /\ pc = "idle" /\ player = PlayerNew(IdleConfig.DEFAULT_PLAYER_STATS)
    /\ monster = NoMonster /\ combatCount = 0 /\ acted = "none"
    /\ lastAttack = NoAttack /\ lastReward = NoReward
    /\ callLog = NoCallLog

SpecGen == InitGen /\ [][NextGen]_vars

\* -------------------------------------------------------- startGame steps
\* a loop that opens with the monster's turn
LoopHead_MonsterFirst(p, m) ==
    IF ~BarIsEmpty(p.hpBar) /\ ~BarIsEmpty(m.hpBar) THEN "monsterTurn"
    ELSE IF BarIsEmpty(m.hpBar) THEN "reward" ELSE "newCombat"

\* the condition of the combat loop, line 319, and the test after it, line 396
LoopHead(p, m) ==
    IF ~BarIsEmpty(p.hpBar) /\ ~BarIsEmpty(m.hpBar) THEN "playerTurn"
    ELSE IF BarIsEmpty(m.hpBar) THEN "reward" ELSE "newCombat"

\* the monster-defeated test with its break forgotten
AfterPlayerTurn_NoBreak(m) == "monsterTurn"

\* the monster-defeated test, lines 344-347, and the test after the loop, line 396
AfterPlayerTurn(m) == IF BarIsEmpty(m.hpBar) THEN "reward" ELSE "monsterTurn"

\* the player-defeated test, lines 386-389 (process.exit), then the loop's condition
AfterMonsterTurn(p, m) == IF BarIsEmpty(p.hpBar) THEN "gameOver" ELSE LoopHead(p, m)

\* lines 304-319: a new encounter; createLLMMonster answers
NewCombat ==
    /\ pc = "newCombat"
    /\ combatCount < MaxCombats
    /\ combatCount' = combatCount + 1
    /\ \E http \in GameMonsterHttps :
         LET r == CreateLLMMonster(player.level.value, http) IN
         /\ monster' = r.monster
         /\ pc' = IF r.threw THEN "crashed" ELSE LoopHead(player, r.monster)
    /\ acted' = "none"
    /\ lastAttack' = NoAttack /\ lastAction' = NoAction /\ lastReward' = NoReward
    /\ UNCHANGED <<callLog, bar, barLive, barLog, lvl, lvlLog, statsObj, statsLog, gen, cfg, player>>

\* lines 320-347: the player's turn
PlayerTurn ==
    /\ pc = "playerTurn"
    /\ \E dHit \in Draws, dCrit \in Draws :
         LET r == PlayerTurnOutcome(player, monster, dHit, dCrit) IN
         /\ monster' = r.monster
         /\ lastAttack' = r.attack
         /\ pc' = AfterPlayerTurn(r.monster)
    /\ acted' = "player"
    /\ UNCHANGED <<callLog, bar, barLive, barLog, lvl, lvlLog, statsObj, statsLog, gen, cfg, player, combatCount, lastAction,
                   lastReward>>

\* lines 350-393: the monster's turn; chooseAction answers
MonsterTurn ==
    /\ pc = "monsterTurn"
    /\ \E http \in GameActionHttps :
         LET a == ChooseAction(monster, http) IN
         /\ lastAction' = [called |-> TRUE, http |-> http, threw |-> a.threw,
                           type |-> a.type]
         /\ IF a.threw
            THEN pc' = "crashed" /\ UNCHANGED <<player, lastAttack, acted>>
            ELSE /\ acted' = "monster"
                 /\ IF a.type = "attack"
                    THEN \E dHit \in Draws, dCrit \in Draws, dEvade \in Draws :
                           LET r == MonsterAttackOutcome(monster, player, dHit, dCrit, dEvade)
                           IN /\ player' = r.player
                              /\ lastAttack' = r.attack
                              /\ pc' = AfterMonsterTurn(r.player, monster)
                    ELSE /\ UNCHANGED <<player, lastAttack>>
                         /\ pc' = AfterMonsterTurn(player, monster)
    /\ UNCHANGED <<callLog, bar, barLive, barLog, lvl, lvlLog, statsObj, statsLog, gen, cfg, monster, combatCount, lastReward>>

\* the restore after a victory left out
VictoryRestore_None(p) == p

\* lines 403-404: hpBar.value = hpBar.max; mpBar.value = mpBar.max
VictoryRestore(p) ==
    [p EXCEPT !.hpBar = BarSetValue(p.hpBar, p.hpBar.max),
              !.mpBar = BarSetValue(p.mpBar, p.mpBar.max)]

\* lines 396-408: experience, gold, the restore and the drop test
Reward ==
    /\ pc = "reward"
    /\ \E g \in {5, 15}, dDrop \in Draws :
         LET gained == PlayerGainExp(player, monster.baseExp)
             paid == [gained EXCEPT !.gold = gained.gold + g]
             healed == VictoryRestore(paid)
             dropped == Odds(monster.dropChance, 1, dDrop)
         IN
         /\ player' = healed
         /\ lastReward' = [happened |-> TRUE, exp |-> monster.baseExp, gold |-> g,
                           dropped |-> dropped, itemDone |-> FALSE, http |-> HttpError,
                           before |-> player]
         /\ pc' = IF dropped THEN "itemDrop" ELSE "newCombat"
    /\ UNCHANGED <<callLog, bar, barLive, barLog, lvl, lvlLog, statsObj, statsLog, gen, cfg, monster, combatCount, acted,
                   lastAttack, lastAction>>

\* lines 409-455: the item generator answers
ItemDrop ==
    /\ pc = "itemDrop"
    /\ \E http \in GameItemHttps :
         /\ player' = ItemDropOutcome(player, http, combatCount)
         /\ lastReward' = [lastReward EXCEPT !.itemDone = TRUE, !.http = http,
                                             !.before = player]
    /\ pc' = "newCombat"
    /\ UNCHANGED <<callLog, bar, barLive, barLog, lvl, lvlLog, statsObj, statsLog, gen, cfg, monster, combatCount, acted,
                   lastAttack, lastAction>>

Next == NewCombat \/ PlayerTurn \/ MonsterTurn \/ Reward \/ ItemDrop

\* startGame up to the first encounter: new Player({ name: "Arwen" })
Init ==
    /\ cfg \in Configs
    /\ player = PlayerNew(cfg.DEFAULT_PLAYER_STATS)
    /\ pc = "newCombat"
    /\ monster = NoMonster /\ combatCount = 0 /\ acted = "none"
    /\ lastAttack = NoAttack /\ lastAction = NoAction /\ lastReward = NoReward
    /\ callLog = NoCallLog
    /\ gen = NoGen
    /\ bar = NoBar /\ barLive = FALSE /\ barLog = NoBarLog
    /\ lvl = LevelNew(1, 0) /\ lvlLog = NoLvlLog
    /\ statsObj = JsStatsNew(NoValues) /\ statsLog = NoStatsLog

Spec == Init /\ [][Next]_vars

\* C1: every Bar that a successful constructor call produced, after any
\* sequence of value assignments, adjustments and max assignments, has
\* 0 <= position <= max and max > 0.
C1_BarBounds ==
    barLive => (0 <= bar.position /\ bar.position <= bar.max /\ bar.max > 0)

\* C1 witness: an adjustment larger than the whole range has been clamped.
C1_Witness ==
    /\ barLive
    /\ barLog.op = "adjust"
    /\ barLog.before.position + barLog.arg > barLog.before.max
    /\ bar.position = bar.max

\* C6: after every gainExp call (non-negative amount) on a Level reached from
\* level 1, exp 0 by gainExp calls, 0 <= exp < expToNextLevel.
C6_ExpBelowThreshold ==
    0 <= lvl.exp /\ lvl.exp < lvl.expToNextLevel

\* C6 witness: one call crossed two thresholds and left a positive residue.
C6_Witness ==
    /\ lvlLog.called
    /\ lvl.value >= lvlLog.before.value + 2
    /\ lvl.exp > 0

\* C2: in both directions an attack that passes the hit test and is not
\* evaded applies a final damage of at least 1, so the defender's HP goes
\* down by that damage, clamped at 0.
C2_MinimumDamage ==
    (lastAttack.hit /\ ~lastAttack.evaded) =>
        /\ lastAttack.applied
        /\ lastAttack.damage >= 1
        /\ lastAttack.hpAfter = Max(0, lastAttack.hpBefore - lastAttack.damage)
        /\ (lastAttack.hpAfter < lastAttack.hpBefore \/ lastAttack.hpBefore = 0)

\* C2 witness: the player hit a monster whose floored defense is at least the
\* attack's damage, and 1 point landed.
C2_Witness ==
    /\ lastAttack.attacker = "player"
    /\ lastAttack.hit
    /\ lastAttack.attackPower <= lastAttack.defenseX2 \div 2
    /\ lastAttack.damage = 1
    /\ lastAttack.hpAfter = lastAttack.hpBefore - 1

\* the action the claim expects of chooseAction for an answer: defend for valid
\* JSON whose action_type is 'defend' or contains 'defense', else attack
C3_Expected(http) ==
    LET str == StripFence(GetGemmaResponse(http)) IN
    IF /\ http.kind = "ok"
       /\ str.json
       /\ ~str.v.isNull
       /\ str.v.kind = "string"
       /\ \/ ToLowerCase(str.v.action_type) = Str_defend
          \/ Includes(ToLowerCase(str.v.action_type), Str_defense)
    THEN "defend" ELSE "attack"

\* C3: for every answer of the action generator chooseAction does not throw
\* and returns attack, unless the answer is valid JSON whose action_type is
\* 'defend' or contains 'defense', for which it returns defend.
C3_ActionFallback ==
    lastAction.called =>
        /\ ~lastAction.threw
        /\ lastAction.type = C3_Expected(lastAction.http)

\* the answers C4 is about: the call failed, the text is not JSON, or the
\* JSON lacks name, stats or hp, or has hp <= 0
C4_Failing(http) ==
    LET str == StripFence(GetGemmaResponse(http)) IN
    \/ http.kind # "ok"
    \/ ~str.json
    \/ str.v.isNull
    \/ ~str.v.hasName \/ ~str.v.hasStats \/ ~str.v.hasHp
    \/ str.v.hp <= 0

\* C4: for every player level >= 1 and every failing answer createLLMMonster
\* does not throw and returns the fallback monster: hp = min(tier maxHp,
\* 15 + 2 * level) > 0, STR = DEX = CON = 5 + floor(level / 2).
C4_MonsterFallback ==
    (gen.called /\ C4_Failing(gen.http)) =>
        LET L == gen.level
            m == gen.monster
            tierMax == IF L <= 3 THEN 25 ELSE IF L <= 7 THEN 50 ELSE 100
        IN /\ ~gen.threw
           /\ m.name = "Error Monster"
           /\ m.hpBar.max = Min(tierMax, 15 + 2 * L)
           /\ m.hpBar.position = m.hpBar.max
           /\ ~BarIsEmpty(m.hpBar)
           /\ \A t \in {"STR", "DEX", "CON"} : m.stats[t] = 5 + (L \div 2)

\* C4 witness: at a level of the highest tier an answer with a negative hp,
\* which passes the constructor's own test, ended in the fallback monster.
C4_Witness ==
    /\ gen.called
    /\ gen.level >= 8
    /\ gen.http.kind = "ok" /\ gen.http.text.json
    /\ gen.http.text.fence = "json"
    /\ gen.http.text.v.hasHp /\ gen.http.text.v.hp < 0
    /\ gen.monster.name = "Error Monster"

\* the item answers C5 is about: the call failed, the text is not JSON, or the
\* record is incomplete (no name, no type, or a weapon without a damage string)
C5_Malformed(http) ==
    LET str == StripFence(GetGemmaResponse(http)) IN
    \/ http.kind # "ok"
    \/ ~str.json
    \/ str.v.isNull
    \/ ~str.v.hasName \/ ~str.v.hasType
    \/ (str.v.type = "Weapon" /\ str.v.dmgKind # "string")

\* C5: when a drop occurs and the item generator's answer is malformed, no
\* item is produced: inventory and equipped weapon are unchanged and the game
\* goes on to the next encounter.
C5_NoItemOnMalformed ==
    (lastReward.itemDone /\ C5_Malformed(lastReward.http)) =>
        /\ player.inventory = lastReward.before.inventory
        /\ player.equippedWeapon = lastReward.before.equippedWeapon
        /\ pc = "newCombat"

\* C7: in every turn the player's attack is resolved, the monster's HP
\* updated, before the monster's action is requested; the two alternate,
\* the player first; the player's turn leaves the player and the monster's
\* last action untouched.
C7_TurnOrder ==
    [][ /\ (pc = "playerTurn" => (acted # "player" /\ acted' = "player"))
        /\ (pc = "playerTurn" => (player' = player /\ lastAction' = lastAction))
        /\ (pc = "monsterTurn" =>
              /\ acted = "player"
              /\ lastAttack.attacker = "player"
              /\ monster.hpBar.position = lastAttack.hpAfter
              /\ monster' = monster
              /\ (acted' = "monster" \/ pc' = "crashed"))
        /\ ((acted = "none" /\ acted' # "none") => acted' = "player") ]_vars

\* C7 witness: a second turn of an encounter: the monster has acted, the
\* player has attacked again and the monster is about to act.
C7_Witness ==
    /\ pc = "monsterTurn"
    /\ lastAction.called /\ ~lastAction.threw
    /\ acted = "player"

\* C8: a monster at 0 HP never acts and a turn starts only with both sides
\* alive; once the player's HP is 0 the session is over: no reward for that
\* encounter and no further step.
C8_TerminalTransition ==
    /\ (pc = "monsterTurn" => ~BarIsEmpty(monster.hpBar))
    /\ (pc = "playerTurn" => (~BarIsEmpty(monster.hpBar) /\ ~BarIsEmpty(player.hpBar)))
    /\ (BarIsEmpty(monster.hpBar) => pc \in {"reward", "itemDrop", "newCombat"})
    /\ (BarIsEmpty(player.hpBar) => pc = "gameOver")
    /\ (pc = "gameOver" => (~lastReward.happened /\ ~ENABLED Next))

\* C8 witness: the monster's attack brought the player to 0 HP.
C8_Witness ==
    /\ pc = "gameOver"
    /\ lastAttack.attacker = "monster"
    /\ lastAttack.hpBefore > 0
    /\ lastAttack.hpAfter = 0

\* C9: in both directions the defender's evasion test follows a successful
\* hit, and an evaded attack deals 0 damage and leaves the defender's HP as
\* it was.
C9_EvasionSymmetric ==
    /\ (lastAttack.hit => lastAttack.evasionTested)
    /\ (lastAttack.evaded =>
          (lastAttack.damage = 0 /\ lastAttack.hpAfter = lastAttack.hpBefore))

\* C10 as stated: with hitChance 100 and the defender's evasionRate 0 the
\* damage applied is max(1, attackPower - floor(defense)) in every execution.
C10_DeterministicDamage ==
    (lastAttack.attacker # "none" /\ lastAttack.hitChance = 100
       /\ lastAttack.defenderEvasion = 0) =>
        /\ lastAttack.applied
        /\ lastAttack.damage =
             Max(1, lastAttack.attackPower - (lastAttack.defenseX2 \div 2))

\* C10 amended: with hitChance 100 and the defender's evasionRate 0 the attack
\* always lands, whatever the hit and evasion draws, and the damage applied
\* is max(1, d - floor(defense)) with d = attackPower, or
\* floor(attackPower * 3 / 2) when the critical draw succeeded.
C10_DamageUpToCritical ==
    (lastAttack.attacker # "none" /\ lastAttack.hitChance = 100
       /\ lastAttack.defenderEvasion = 0) =>
        /\ lastAttack.hit /\ ~lastAttack.evaded /\ lastAttack.applied
        /\ lastAttack.damage =
             Max(1, (IF lastAttack.critical
                     THEN (lastAttack.attackPower * 3) \div 2
                     ELSE lastAttack.attackPower) - (lastAttack.defenseX2 \div 2))
        /\ lastAttack.hpAfter = Max(0, lastAttack.hpBefore - lastAttack.damage)

\* C10 witness: such an attack was critical and dealt more than
\* max(1, attackPower - floor(defense)).
C10_Witness ==
    /\ lastAttack.attacker = "monster"
    /\ lastAttack.hitChance = 100 /\ lastAttack.defenderEvasion = 0
    /\ lastAttack.critical
    /\ lastAttack.damage >
         Max(1, lastAttack.attackPower - (lastAttack.defenseX2 \div 2))

\* C11: within one attack that hits, in both directions, the stages run in
\* the order hit test, critical test, base damage, evasion test, mitigation,
\* apply; mitigation is never computed before the evasion test.
C11_StageOrder ==
    lastAttack.hit =>
        lastAttack.stages =
            <<"hit", "critical", "damage", "evasion", "mitigation", "apply">>

\* C12: an attack that misses, as every attack with hitChance 0 does, deals
\* zero damage, makes no critical or evasion test, does not call takeDamage
\* and leaves the defender as it was.
C12_MissLeavesUnchanged ==
    [][ /\ (pc = "playerTurn" =>
              /\ lastAttack'.attacker = "player"
              /\ (lastAttack'.hitChance <= 0 => ~lastAttack'.hit)
              /\ (~lastAttack'.hit =>
                    /\ monster' = monster
                    /\ lastAttack'.damage = 0 /\ ~lastAttack'.applied
                    /\ ~lastAttack'.critical /\ ~lastAttack'.evasionTested
                    /\ lastAttack'.stages = <<"hit">>))
        /\ ((pc = "monsterTurn" /\ ~lastAction'.threw /\ lastAction'.type = "attack") =>
              /\ lastAttack'.attacker = "monster"
              /\ (lastAttack'.hitChance <= 0 => ~lastAttack'.hit)
              /\ (~lastAttack'.hit =>
                    /\ player' = player
                    /\ lastAttack'.damage = 0 /\ ~lastAttack'.applied
                    /\ ~lastAttack'.critical /\ ~lastAttack'.evasionTested
                    /\ lastAttack'.stages = <<"hit">>)) ]_vars

\* C12 witness: with hitChance 0 on both sides the monster's attack missed
\* right after the player's had.
C12_Witness ==
    /\ lastAttack.attacker = "monster"
    /\ lastAttack.hitChance = 0
    /\ ~lastAttack.hit
    /\ lastAttack.hpAfter = lastAttack.hpBefore
    /\ player.hpBar.position = lastAttack.hpBefore
    /\ pc = "playerTurn"

\* floor(100 * level * 1.5), the threshold the specification gives for a level
C13_Threshold(level) == (100 * level * 3) \div 2

\* the sum of the thresholds of the levels from .. to - 1
RECURSIVE C13_ThresholdSum(_, _)
C13_ThresholdSum(from, to) ==
    IF from >= to THEN 0 ELSE C13_Threshold(from) + C13_ThresholdSum(from + 1, to)

\* C13 as stated: at a level L with 0 exp one gainExp(2 * threshold(L) + 1)
\* gives at least two level-ups, the residue being the amount less the
\* thresholds crossed.
C13_TwoLevelUps ==
    (lvlLog.called /\ lvlLog.before.exp = 0
       /\ lvlLog.amount = 2 * C13_Threshold(lvlLog.before.value) + 1) =>
        /\ lvl.value >= lvlLog.before.value + 2
        /\ lvl.exp = lvlLog.amount - C13_ThresholdSum(lvlLog.before.value, lvl.value)

\* C13 amended: at a level L with 0 exp one gainExp(a) leaves the amount less
\* the thresholds crossed; it gives two or more level-ups exactly when
\* a >= threshold(L) + threshold(L + 1), and a = 2 * threshold(L) + 1, which
\* is less, gives exactly one, leaving threshold(L) + 1.
C13_CarryOver ==
    (lvlLog.called /\ lvlLog.before.exp = 0) =>
        LET L == lvlLog.before.value
            a == lvlLog.amount
        IN /\ lvl.exp = a - C13_ThresholdSum(L, lvl.value)
           /\ (lvl.value >= L + 2 <=> a >= C13_Threshold(L) + C13_Threshold(L + 1))
           /\ (a = 2 * C13_Threshold(L) + 1 =>
                 (lvl.value = L + 1 /\ lvl.exp = C13_Threshold(L) + 1))

\* C13 witness: gainExp(2 * threshold(L) + 1) was called at a level L >= 2
\* with 0 exp.
C13_Witness ==
    /\ lvlLog.called
    /\ lvlLog.before.value >= 2 /\ lvlLog.before.exp = 0
    /\ lvlLog.amount = 2 * lvlLog.before.expToNextLevel + 1
    /\ lvl.value = lvlLog.before.value + 1

\* C14: at a level L with 0 exp, gainExp(expToNextLevel) gives exactly one
\* level-up and leaves exp = 0.
C14_ExactThreshold ==
    (lvlLog.called /\ lvlLog.before.exp = 0
       /\ lvlLog.amount = lvlLog.before.expToNextLevel) =>
        /\ lvl.value = lvlLog.before.value + 1
        /\ lvl.exp = 0
        /\ lvlLog.ret

\* C14 witness: the exact threshold was gained at a level L >= 2 with 0 exp.
C14_Witness ==
    /\ lvlLog.called
    /\ lvlLog.before.value >= 2 /\ lvlLog.before.exp = 0
    /\ lvlLog.amount = lvlLog.before.expToNextLevel
    /\ lvl.exp = 0

\* C15: in every state of a Level, expToNextLevel = floor(100 * level * 1.5)
\* for the current level.
C15_ThresholdCurrent ==
    lvl.expToNextLevel = (100 * lvl.value * 3) \div 2

\* C15 witness: one call raised the level by two, to an odd level.
C15_Witness ==
    /\ lvlLog.called
    /\ lvl.value = lvlLog.before.value + 2
    /\ lvl.value % 2 = 1
    /\ lvl.expToNextLevel > lvlLog.before.expToNextLevel

\* C16: a gainExp call never lowers the level; it returns true exactly when
\* the level rose, and a false return leaves level and threshold as they were.
C16_MonotonicLevel ==
    lvlLog.called =>
        /\ lvl.value >= lvlLog.before.value
        /\ (lvlLog.ret <=> lvl.value > lvlLog.before.value)
        /\ (~lvlLog.ret =>
              /\ lvl.value = lvlLog.before.value
              /\ lvl.expToNextLevel = lvlLog.before.expToNextLevel
              /\ lvl.exp = lvlLog.before.exp + lvlLog.amount)

\* C16 witness: at a level above 1 a positive gain returned false.
C16_Witness ==
    /\ lvlLog.called /\ ~lvlLog.ret
    /\ lvlLog.amount > 0
    /\ lvl.value >= 2
    /\ lvl.exp > lvlLog.before.exp

\* C20: assigning a max m > 0 sets max to m; a position above m becomes m,
\* any other position stays.
C20_MaxReassign ==
    (barLog.op = "max" /\ barLog.arg > 0) =>
        /\ ~barLog.threw
        /\ bar.max = barLog.arg
        /\ bar.position = IF barLog.before.position > barLog.arg
                          THEN barLog.arg ELSE barLog.before.position

\* C20 witness: the max was lowered below the position.
C20_Witness ==
    /\ barLog.op = "max"
    /\ barLog.arg > 0 /\ barLog.arg < barLog.before.position
    /\ bar.position = barLog.arg /\ bar.max = barLog.arg

\* C17: in every Stats object, however built and after any set calls, every
\* recognized ability is present and its value is a non-negative integer.
C17_StatBlockInvariant ==
    \A t \in StatTypes :
        /\ t \in DOMAIN statsObj
        /\ statsObj[t].kind = "number"
        /\ statsObj[t].n >= 0

\* C18: getBonus never fails; for a recognized ability holding the number v
\* it returns floor((v - 10) / 2), so -2 for 7, 0 for 10 and 4 for 18; for
\* LUCK and every other unrecognized name it returns 0; get fails for every
\* unrecognized name but LUCK, for which it returns 10.
C18_TotalBonus ==
    /\ (statsLog.op = "getBonus" =>
          LET v == statsLog.before[statsLog.key] IN
          /\ ~statsLog.threw
          /\ ((statsLog.key \in StatTypes /\ v.kind = "number") =>
                /\ statsLog.ret.kind = "number"
                /\ 2 * statsLog.ret.n <= v.n - 10
                /\ v.n - 10 < 2 * statsLog.ret.n + 2
                /\ (v.n = 7 => statsLog.ret.n = 0 - 2)
                /\ (v.n = 10 => statsLog.ret.n = 0)
                /\ (v.n = 18 => statsLog.ret.n = 4))
          /\ (statsLog.key \notin StatTypes => statsLog.ret = JsNum(0)))
    /\ (statsLog.op = "get" =>
          /\ (statsLog.threw <=> (statsLog.key \notin StatTypes /\ statsLog.key # "LUCK"))
          /\ (statsLog.key = "LUCK" => statsLog.ret = JsNum(10))
          /\ (statsLog.key \in StatTypes => statsLog.ret = statsLog.before[statsLog.key]))

\* C18 witness: the bonus of a recognized ability holding 7 was asked for.
C18_Witness ==
    /\ statsLog.op = "getBonus"
    /\ statsLog.key = "DEX"
    /\ statsObj["DEX"] = JsNum(7)
    /\ statsLog.ret = JsNum(0 - 2)

C21_RangeErrors ==
    /\ (barLog.op \in {"new1", "new2"} =>
          IF barLog.arg <= 0
          THEN barLog.threw /\ ~barLive /\ bar = barLog.before
          ELSE /\ ~barLog.threw /\ barLive
               /\ bar.max = barLog.arg
               /\ (barLog.op = "new1" => bar.position = barLog.arg)
               /\ (barLog.op = "new2" =>
                     bar.position = (IF barLog.init < 0 THEN 0
                                     ELSE IF barLog.init > barLog.arg THEN barLog.arg
                                     ELSE barLog.init)))
    /\ ((barLog.op = "max" /\ barLog.arg <= 0) =>
          (barLog.threw /\ bar = barLog.before))

\* C21 witness: a max of 0 was refused for a Bar that is neither full nor
\* empty.
C21_Witness ==
    /\ barLive
    /\ barLog.op = "max" /\ barLog.arg = 0 /\ barLog.threw
    /\ 0 < bar.position /\ bar.position < bar.max

\* all the experience a Level stands for: the thresholds of the levels passed
\* and the exp held
C30_TotalExp(level) == C13_ThresholdSum(1, level.value) + level.exp

\* C30: the reward step of a won encounter adds the monster's baseExp to the
\* player's experience and 5..15 to the gold and leaves both bars full; gold
\* never decreases or goes negative, and every encounter starts with the
\* player's HP and MP bars full.
C30_VictoryRestore ==
    [][ /\ (pc = "reward" =>
              /\ BarIsEmpty(monster.hpBar)
              /\ lastReward'.exp = monster.baseExp
              /\ C30_TotalExp(player'.level) = C30_TotalExp(player.level) + monster.baseExp
              /\ player'.gold - player.gold \in 5 .. 15
              /\ player'.hpBar.position = player'.hpBar.max
              /\ player'.mpBar.position = player'.mpBar.max)
        /\ (pc = "itemDrop" =>
              /\ player'.hpBar = player.hpBar /\ player'.mpBar = player.mpBar
              /\ player'.gold = player.gold /\ player'.level = player.level)
        /\ (pc = "newCombat" =>
              /\ player.hpBar.position = player.hpBar.max
              /\ player.mpBar.position = player.mpBar.max)
        /\ player'.gold >= player.gold
        /\ player.gold >= 0 ]_vars

\* C30 witness: the player won an encounter wounded, without a level-up, and
\* stands before the next one.
C30_Witness ==
    /\ pc = "newCombat"
    /\ lastReward.happened
    /\ lastReward.before.hpBar.position < lastReward.before.hpBar.max
    /\ player.level.value = lastReward.before.level.value
    /\ player.hpBar.position = player.hpBar.max
    /\ player.gold > 0

\* C28: every gainExp call returns: each iteration of the level-up loop lowers
\* exp by the positive threshold of the level left, never below 0, and raises
\* the threshold, so a call that entered the loop leaves it.
C28_GainExpTerminates ==
    /\ [][ (pc = "gainLoop" /\ pc' = "gainLoop") =>
             /\ lvl.expToNextLevel > 0
             /\ lvl'.exp = lvl.exp - lvl.expToNextLevel
             /\ lvl'.exp >= 0
             /\ lvl'.exp < lvl.exp
             /\ lvl'.expToNextLevel > lvl.expToNextLevel ]_vars
    /\ ((pc = "gainLoop") ~> (pc = "gainIdle"))

\* C28 witness: a call whose loop ran at least twice has returned.
C28_Witness ==
    /\ pc = "gainIdle"
    /\ lvlLog.called /\ lvlLog.ret
    /\ lvl.value >= lvlLog.before.value + 2
    /\ lvl.exp < lvl.expToNextLevel

\* C27: no stalemate, in the form a finite run decides: an encounter in which
\* a turn was taken and whose combat loop has stopped, has stopped with the
\* monster's or the player's HP bar empty, whatever the action generator did.
C27_NoStalemate ==
    (acted # "none" /\ pc \notin {"playerTurn", "monsterTurn"}) =>
        (BarIsEmpty(monster.hpBar) \/ BarIsEmpty(player.hpBar))

\* C23 as stated: Monster.attackPower is max(1, bonus(STR)), with 5 when the
\* monster's data carries no STR.
C23_FromBonus ==
    callLog.op = "monsterAttackPower" =>
        callLog.num = (IF "STR" \in DOMAIN callLog.data.stats
                       THEN Max(1, CalculateStatBonus(callLog.data.stats["STR"]))
                       ELSE 5)

\* C23 as amended: Monster.attackPower is max(1, STR) of the raw STR score,
\* with 5 in place of a score of 0 and the Stats default of 10 when the
\* monster's data carries no STR.
C23_FromScore ==
    callLog.op = "monsterAttackPower" =>
        callLog.num = (IF "STR" \notin DOMAIN callLog.data.stats THEN 10
                       ELSE IF callLog.data.stats["STR"] = 0 THEN 5
                       ELSE IF callLog.data.stats["STR"] < 1 THEN 1
                       ELSE callLog.data.stats["STR"])

\* C23 witness: the attackPower of a monster of STR 14 was read as 14, where
\* the bonus is 2.
C23_Witness ==
    /\ callLog.op = "monsterAttackPower"
    /\ "STR" \in DOMAIN callLog.data.stats
    /\ callLog.data.stats["STR"] = 14
    /\ callLog.num = 14
    /\ CalculateStatBonus(14) = 2

\* C24: takeDamage signals defeat exactly when it brings the bar from above 0
\* to 0; a call on a bar already at 0 does not signal defeat again.
C24_DefeatOnce ==
    callLog.op = "monsterTakeDamage" =>
        (callLog.flag <=> (callLog.monsterBefore.hpBar.position > 0 /\ monster.hpBar.position = 0))

\* the die-side count d of a weapon, 0 when it has no damage die
C22_Die(w) == IF w.dmgKind = "string" /\ w.damage # <<>> THEN DamageDie(w.damage).n ELSE 0

\* floor((x - 10) / 2) for the STR of the player the call was made on
C22_Bonus == (callLog.before.stats["STR"] - 10) \div 2

\* the reads of attackPower that return a number
C22_Read == callLog.op = "attackPower" /\ ~callLog.threw /\ ~callLog.flag

\* C22 as stated: attackPower = floor(max(1, 5 + bonus(STR) + d/2 + 1)) for
\* every STR and weapon state, d = 0 without a damage die (halves kept doubled).
C22_AlwaysPlusOne ==
    C22_Read =>
        callLog.num = Max(2, 2 * (5 + C22_Bonus) + C22_Die(callLog.before.equippedWeapon) + 2) \div 2

\* C22 as amended: with a weapon whose damage is in NdM notation attackPower is
\* floor(max(1, 5 + bonus(STR) + M/2 + 1)); with a weapon without damage it is
\* max(1, 5 + bonus(STR)), the + 1 belonging to the weapon term; the damage on a
\* monster of defense 5 is max(1, attackPower - 5).
C22_ByWeapon ==
    C22_Read =>
        LET w == callLog.before.equippedWeapon IN
        /\ callLog.num = (IF w.dmgKind = "string" /\ w.damage # <<>>
                          THEN Max(2, 2 * (5 + C22_Bonus) + C22_Die(w) + 2) \div 2
                          ELSE Max(1, 5 + C22_Bonus))
        /\ callLog.amount = Max(1, callLog.num - 5)

\* C22 witness: STR 14 with a weapon without damage reads 7 and deals 2.
C22_Witness ==
    /\ C22_Read
    /\ callLog.before.stats["STR"] = 14
    /\ callLog.before.equippedWeapon.dmgKind = "absent"
    /\ callLog.num = 7 /\ callLog.amount = 2

\* C25: the player always has an equipped weapon record, and equipWeapon with
\* an item that is no weapon changes neither the equipped weapon nor the
\* inventory.
C25_WeaponNeverNull ==
    /\ ~player.equippedWeapon.isNull
    /\ player.equippedWeapon.hasType /\ player.equippedWeapon.type = "Weapon"
    /\ ((callLog.op \in {"equip", "equipHeld"} /\ ~(callLog.item.hasType /\ callLog.item.type = "Weapon")) =>
          /\ player.equippedWeapon = callLog.before.equippedWeapon
          /\ player.inventory = callLog.before.inventory)

\* C25 witness: a non-weapon held in the inventory was passed to equipWeapon
\* after the equipped weapon had been replaced.
C25_Witness ==
    /\ callLog.op = "equipHeld"
    /\ callLog.item.hasType /\ callLog.item.type # "Weapon"
    /\ player.equippedWeapon # WornDagger
    /\ Len(player.inventory) >= 2

\* C29: a drop changes the equipped weapon only for a new weapon of strictly
\* larger die, the displaced weapon then being the one record added to the
\* inventory; any other drop leaves the player unchanged or adds exactly one
\* new record; no held item is ever lost.
C29_LootKeeps ==
    callLog.op = "loot" =>
        LET old == callLog.before
            n == Len(old.inventory)
        IN /\ HeldItems(old) \subseteq HeldItems(player)
           /\ (player.equippedWeapon # old.equippedWeapon =>
                 /\ ~DamageDie(player.equippedWeapon.damage).nan
                 /\ ~DamageDie(old.equippedWeapon.damage).nan
                 /\ DamageDie(player.equippedWeapon.damage).n > DamageDie(old.equippedWeapon.damage).n
                 /\ player.equippedWeapon \notin HeldItems(old)
                 /\ player.inventory = Append(old.inventory, old.equippedWeapon))
           /\ (player.equippedWeapon = old.equippedWeapon =>
                 \/ player = old
                 \/ /\ Len(player.inventory) = n + 1
                    /\ SubSeq(player.inventory, 1, n) = old.inventory
                    /\ player.inventory[n + 1] \notin HeldItems(old))

\* C29 witness: with an item already in the inventory, a drop of a larger die
\* was equipped and the old weapon went to the inventory.
C29_Witness ==
    /\ callLog.op = "loot"
    /\ Len(callLog.before.inventory) >= 1
    /\ player.equippedWeapon # callLog.before.equippedWeapon
    /\ Len(player.inventory) = Len(callLog.before.inventory) + 1

\* C26: a gainExp call that raised the level leaves each bar with the maximum
\* its formula gives at the level reached (5 HP and 2 MP more per level gained)
\* and filled; a gainExp call that raised no level leaves both bars unchanged.
C26_LevelUpBarReset ==
    callLog.op = "gainExp" =>
        LET old == callLog.before
            gainedLevels == player.level.value - old.level.value
        IN IF gainedLevels > 0
           THEN /\ player.hpBar.max = PlayerMaxHpOf(player.level, player.stats)
                /\ player.hpBar.max = old.hpBar.max + 5 * gainedLevels
                /\ player.hpBar.position = player.hpBar.max
                /\ player.mpBar.max = PlayerMaxMpOf(player.level, player.stats)
                /\ player.mpBar.max = old.mpBar.max + 2 * gainedLevels
                /\ player.mpBar.position = player.mpBar.max
           ELSE player.hpBar = old.hpBar /\ player.mpBar = old.mpBar

\* C26 witness: one call took a wounded player up two levels or more.
C26_Witness ==
    /\ callLog.op = "gainExp"
    /\ player.level.value >= callLog.before.level.value + 2
    /\ callLog.before.hpBar.position < callLog.before.hpBar.max
    /\ player.hpBar.position = player.hpBar.max

====
